---- MODULE Spec2Model ----
(***************************************************************************)
(* A model of promenade: the widget grid placement of DashboardView, the   *)
(* MetricWidget update / formatting / conditional styling engine, and the  *)
(* carousel of PrometheusDashboard with its refresh timers.                *)
(*                                                                         *)
(* Six specifications share the variables below:                           *)
(*   SpecGrid    DashboardView.compose on a drawn dashboard configuration  *)
(*   SpecWidget  MetricWidget.update_value on one widget of drawn config   *)
(*   SpecSpark   the same widget machine for sparkline widgets, with the   *)
(*               received values logged                                    *)
(*   Spec        PrometheusDashboard: mount, next, previous, refresh,      *)
(*               timer ticks                                               *)
(*   SpecLoop    the event loop running the app's callbacks, with the      *)
(*               refresh_all_metrics calls in progress                     *)
(*   SpecLive    Spec with the fairness of mounts and of timer ticks       *)
(***************************************************************************)
EXTENDS Integers, Sequences, FiniteSets, TLC

VARIABLES
    \* ---- DashboardView.compose (SpecGrid)
    gconfig,        \* the DashboardConfig compose runs on
    grid_cells,     \* compose's local 2-D list, after the placement loop
    yielded,        \* what compose yields inside the Grid, in order
    gpc,            \* "init" before compose ran, "composed" after
    \* ---- MetricWidget (SpecWidget, SpecSpark)
    wconfig,        \* the WidgetConfig of the widget
    widget,         \* the MetricWidget's state
    wlast,          \* what the last update_value call was given and did
    received,       \* the float()-coercible values update_value was given
    \* ---- PrometheusDashboard (Spec)
    configs,                    \* self.configs
    current_dashboard_index,    \* self.current_dashboard_index
    timers,                     \* the interval timers set_interval created
    refresh_timer_id,           \* self._refresh_timer_id
    screen_views,               \* the DashboardViews attached to the screen
    title,                      \* self.title
    dom,                        \* per view: its MetricWidget descendants
    pending_mount,              \* a mounted view the toolkit has not composed yet
    started,                    \* on_mount ran
    last,                       \* what the last handler did
    \* ---- the event loop of the app (SpecLoop)
    posted,         \* the callbacks posted to the loop and not yet run, in order
    in_progress,    \* the refresh_all_metrics calls that have not returned
    live_timers     \* the number of interval timers set_interval created

gvars == <<gconfig, grid_cells, yielded, gpc>>
wvars == <<wconfig, widget, wlast, received>>
avars == <<configs, current_dashboard_index, timers, refresh_timer_id,
           screen_views, title, dom, pending_mount, started, last>>
lvars == <<posted, in_progress, live_timers>>
vars == <<gvars, wvars, avars, lvars>>

----------------------------------------------------------------------------
(* Bounds of the model *)

\* rows of the drawn grid
GridRows == 2
\* columns of the drawn grid
GridCols == 3
\* widget specs per drawn dashboard
MaxSpecs == 2

\* conditional formats per drawn widget
MaxRules == 2
\* the largest drawn sparkline capacity (sparkline_data_points)
MaxHistory == 3
\* logged update_value calls of SpecSpark
MaxUpdates == 4
\* dashboards loaded into the carousel
MaxDashboards == 3
\* dashboard switches of one run (each one starts a timer)
MaxSwitches == 3
\* callbacks waiting in the event loop
MaxPosted == 2

\* the spans a drawn widget spec may have (a span of 2 from the last row or
\* column leaves the grid)
Spans == {1, 2}

----------------------------------------------------------------------------
(* DashboardView.compose: the placement loop *)

\* the values a grid cell holds: None, the string "occupied", or a MetricWidget
\* (named by the index of its spec in config.widgets)
NoneCell == [tag |-> "None", w |-> 0]
OccupiedCell == [tag |-> "occupied", w |-> 0]
WidgetCell(i) == [tag |-> "widget", w |-> i]

\* the largest element of a set of numbers
SetMax(S) == CHOOSE x \in S : \A y \in S : y <= x

\* range(a, a + n)
Range(a, n) == a .. (a + n - 1)

\* grid_cells = [[None] * grid_columns for _ in range(grid_rows)]
EmptyGrid(cfg) ==
    [cell \in (0 .. cfg.grid_rows - 1) \X (0 .. cfg.grid_columns - 1) |-> NoneCell]

\* the (r, c) the two nested loops of one widget visit
RectCells(wc) == Range(wc.row, wc.row_span) \X Range(wc.column, wc.column_span)

\* if r < self.config.grid_rows and c < self.config.grid_columns
InBoundsMutRowsOnly(cfg, r, c) == r < cfg.grid_rows
InBounds(cfg, r, c) == r < cfg.grid_rows /\ c < cfg.grid_columns

\* the cells of grid_cells the loop body of one widget indexes: the visited
\* (r, c) that pass the bounds test
Indexed(cfg, wc) == {cell \in RectCells(wc) : InBounds(cfg, cell[1], cell[2])}

\* grid_cells[r][c] = ... raises IndexError when r or c is past the end of the
\* list (row and column are not negative: schema.py, ge=0)
RaisesIndexError(cfg) ==
    \E i \in 1 .. Len(cfg.widgets) :
        ~(Indexed(cfg, cfg.widgets[i]) \subseteq DOMAIN EmptyGrid(cfg))

\* if r == widget_config.row and c == widget_config.column
IsPrimaryCellMutRowOnly(wc, r, c) == r = wc.row
IsPrimaryCell(wc, r, c) == r = wc.row /\ c = wc.column

\* what the loop body writes to grid_cells[r][c] for widget i
CellMark(wc, i, r, c) ==
    IF IsPrimaryCell(wc, r, c) THEN WidgetCell(i) ELSE OccupiedCell

\* one iteration of "for widget_config in self.config.widgets": each visited cell
\* is written once, in bounds only
PlaceWidgetMutKeepFirst(cfg, grid, i) ==
    LET wc == cfg.widgets[i] IN
    [cell \in DOMAIN grid |->
        IF cell \in RectCells(wc) /\ InBounds(cfg, cell[1], cell[2])
           /\ grid[cell] = NoneCell
        THEN CellMark(wc, i, cell[1], cell[2])
        ELSE grid[cell]]
PlaceWidget(cfg, grid, i) ==
    LET wc == cfg.widgets[i] IN
    [cell \in DOMAIN grid |->
        IF cell \in RectCells(wc) /\ InBounds(cfg, cell[1], cell[2])
        THEN CellMark(wc, i, cell[1], cell[2])
        ELSE grid[cell]]

\* the placement loop over config.widgets[1..n], in input order
RECURSIVE PlaceUpTo(_, _)
PlaceUpTo(cfg, n) ==
    IF n = 0 THEN EmptyGrid(cfg)
    ELSE PlaceWidget(cfg, PlaceUpTo(cfg, n - 1), n)

PlaceAll(cfg) == PlaceUpTo(cfg, Len(cfg.widgets))

\* "with Grid(...)": the elements yielded for the cells k.. of the row-major walk;
\* a MetricWidget cell yields the widget, a None cell a hidden placeholder, and an
\* "occupied" cell matches neither branch and yields nothing
RECURSIVE YieldFromMutNoPlaceholder(_, _, _)
YieldFromMutNoPlaceholder(cfg, grid, k) ==
    IF k >= cfg.grid_rows * cfg.grid_columns THEN <<>>
    ELSE LET cell == grid[<<k \div cfg.grid_columns, k % cfg.grid_columns>>]
             rest == YieldFromMutNoPlaceholder(cfg, grid, k + 1)
         IN  IF cell.tag = "widget"
             THEN <<[kind |-> "widget", w |-> cell.w]>> \o rest
             ELSE rest
RECURSIVE YieldFrom(_, _, _)
YieldFrom(cfg, grid, k) ==
    IF k >= cfg.grid_rows * cfg.grid_columns THEN <<>>
    ELSE LET cell == grid[<<k \div cfg.grid_columns, k % cfg.grid_columns>>]
             rest == YieldFrom(cfg, grid, k + 1)
         IN  IF cell.tag = "widget"
             THEN <<[kind |-> "widget", w |-> cell.w]>> \o rest
             ELSE IF cell.tag = "None"
                  THEN <<[kind |-> "placeholder", w |-> 0]>> \o rest
                  ELSE rest

ComposeYield(cfg) == YieldFrom(cfg, PlaceAll(cfg), 0)

\* self.query(MetricWidget) on a composed view: the yielded MetricWidgets, in
\* document order
RECURSIVE WidgetsOf(_)
WidgetsOf(ys) ==
    IF ys = <<>> THEN <<>>
    ELSE IF Head(ys).kind = "widget"
         THEN <<Head(ys).w>> \o WidgetsOf(Tail(ys))
         ELSE WidgetsOf(Tail(ys))

DomWidgets(cfg) == WidgetsOf(ComposeYield(cfg))

----------------------------------------------------------------------------
(* Metric values, display strings and styles *)

\* A value handed to update_value: None, a string float() accepts (its number
\* is n), a string float() rejects, or an "Error: ..." string of query_batch
NoneV == [k |-> "none", n |-> 0]
NumV(n) == [k |-> "num", n |-> n]
StrV == [k |-> "str", n |-> 0]
ErrV == [k |-> "err", n |-> 0]

\* the numbers the numeric strings stand for
Nums == {0, 5, 15}
Values == {NoneV, StrV, ErrV} \cup {NumV(n) : n \in Nums}

\* A displayed string.  t names how the string was made, n the number in it:
\*   "loading" "Loading..."    "dashes" "---"       "nodata" "No data"
\*   "errmsg"  the "Error: ..." value itself         "Error"  the marker "Error"
\*   "float"   str.format of float n ("15.0")        "raw"    the raw string
\*   "updown"  'UP' (n = 1) or 'DOWN' (n = 0)        "quot"   100 / n to 1 decimal
\*   "template" the template itself                  "exc"    "Error: " + str(e)
\*   "absent"  there is no such child widget
Text(t, n) == [t |-> t, n |-> n, e |-> ""]
NoText == Text("absent", 0)

\* the exceptions of the model
TypeErrorExc == "TypeError"
ZeroDivisionExc == "ZeroDivisionError"
IndexErrorExc == "IndexError"
KeyErrorExc == "KeyError"
\* f"Error: {str(e)}"
ExcText(exc) == [t |-> "exc", n |-> 0, e |-> exc]

\* A colour of a style: unset (None), or a resolved colour string
NoColor == [base |-> "None", how |-> "none"]
\* styles.border: None, or (border_style, colour)
NoBorder == [style |-> "None", color |-> NoColor]

\* str(getattr(self.app, "theme", "textual-dark")): "light" in it
IsLightTheme == FALSE

\* _resolve_color: a theme variable is taken from the theme as it is; any other
\* colour is parsed and lightened (dark theme) or darkened (light theme)
ResolveColor(color_str) ==
    IF color_str \in {"$primary", "$success", "$error"}
    THEN [base |-> color_str, how |-> "theme"]
    ELSE [base |-> color_str,
          how |-> IF IsLightTheme THEN "darken" ELSE "lighten"]

----------------------------------------------------------------------------
(* MetricWidget._format_value *)

\* the format strings of the model
FmtPlain == "{value}"
FmtUpDown == "'UP' if value > 0 else 'DOWN'"
FmtQuot == "'{:.1f}'.format(100 / value)"
FmtOther == "{other}"
Templates == {FmtPlain, FmtUpDown, FmtQuot, FmtOther}

\* "'" in format_string or '"' in format_string
HasQuote(format_string) == format_string \in {FmtUpDown, FmtQuot}

\* float(value) of a value that is neither None nor an "Error:" string
Float(value) == [ok |-> value.k = "num", n |-> value.n]

Returned(text) == [raised |-> FALSE, exc |-> "", text |-> text]
Raised(exc) == [raised |-> TRUE, exc |-> exc, text |-> NoText]

\* eval(format_string, {"value": numeric_value or value}) and str() of it
EvalTemplate(format_string, value) ==
    LET f == Float(value) IN
    IF format_string = FmtUpDown
    THEN IF f.ok THEN Returned(Text("updown", IF f.n > 0 THEN 1 ELSE 0))
                 ELSE Raised(TypeErrorExc)
    ELSE \* FmtQuot
         IF ~f.ok THEN Raised(TypeErrorExc)
         ELSE IF f.n = 0 THEN Raised(ZeroDivisionExc)
         ELSE Returned(Text("quot", f.n))

\* format_string.format(value=x): x the float (isfloat) or the raw string
StrFormat(format_string, isfloat, value) ==
    CASE format_string = FmtPlain ->
            Returned(IF isfloat THEN Text("float", value.n) ELSE Text("raw", value.n))
      [] format_string = FmtUpDown -> Returned(Text("template", 0))
      [] format_string = FmtQuot -> Raised(IndexErrorExc)
      [] OTHER -> Raised(KeyErrorExc)

\* the "Standard format string" block: float(value) failing (ValueError) leads
\* to the except branch; KeyError and IndexError of format() are not caught
StandardFormat(format_string, value) ==
    IF Float(value).ok
    THEN StrFormat(format_string, TRUE, value)
    ELSE StrFormat(format_string, FALSE, value)

FormatValue(cfg, value) ==
    LET fs == cfg.format_string IN
    IF HasQuote(fs) /\ ~EvalTemplate(fs, value).raised
    THEN EvalTemplate(fs, value)
    ELSE StandardFormat(fs, value)

----------------------------------------------------------------------------
(* MetricWidget._apply_conditional_formatting *)

\* The conditional formats of the model.  "None" is Python's None.
CondGt0 == "value > 0"
CondGt10 == "value > 10"
CondNe0 == "value != 0"
CondBad == "value >"
Rule(c, b, t, g, v) ==
    [condition |-> c, border_color |-> b, text_color |-> t,
     background_color |-> g, visible |-> v]
Rules == {
    Rule(CondGt0, "red", "None", "None", "None"),
    Rule(CondGt10, "blue", "None", "None", "None"),
    Rule(CondGt10, "None", "green", "None", "False"),
    Rule(CondNe0, "None", "red", "$primary", "True"),
    Rule(CondBad, "None", "None", "yellow", "None") }

\* eval(condition, {"value": numeric_value}): numeric_value is float(value), or
\* the string itself when float() rejects it (an "Error: ..." string too).
\* Ordering a string against a number raises TypeError; "value >" is no
\* expression (SyntaxError).
EvalCondition(condition, value) ==
    LET f == Float(value) IN
    CASE condition = CondGt0 ->
            IF f.ok THEN [raised |-> FALSE, result |-> f.n > 0]
                    ELSE [raised |-> TRUE, result |-> FALSE]
      [] condition = CondGt10 ->
            IF f.ok THEN [raised |-> FALSE, result |-> f.n > 10]
                    ELSE [raised |-> TRUE, result |-> FALSE]
      [] condition = CondNe0 ->
            [raised |-> FALSE, result |-> IF f.ok THEN f.n # 0 ELSE TRUE]
      [] OTHER -> [raised |-> TRUE, result |-> FALSE]

\* _evaluate_condition: bool(eval(...)), False on any exception
EvaluateConditionMutRaiseIsTrue(condition, value) ==
    LET r == EvalCondition(condition, value) IN
    IF r.raised THEN TRUE ELSE r.result
EvaluateCondition(condition, value) ==
    LET r == EvalCondition(condition, value) IN
    IF r.raised THEN FALSE ELSE r.result

\* the style fields of a widget record
StyleOf(w) ==
    [color |-> w.color, background |-> w.background,
     border |-> w.border, display |-> w.display]

\* the reset of _apply_conditional_formatting: color and background None,
\* styles.border None, display True
NeutralStyle ==
    [color |-> NoColor, background |-> NoColor, border |-> NoBorder,
     display |-> TRUE]

\* _apply_format: each field the format sets overwrites the style's
ApplyFormatMutKeepEarlier(cfg, st, fmt) ==
    [color |-> IF fmt.text_color # "None" /\ st.color = NoColor
               THEN ResolveColor(fmt.text_color) ELSE st.color,
     background |-> IF fmt.background_color # "None" /\ st.background = NoColor
                    THEN ResolveColor(fmt.background_color) ELSE st.background,
     border |-> IF fmt.border_color # "None" /\ st.border = NoBorder
                THEN [style |-> cfg.border_style,
                      color |-> ResolveColor(fmt.border_color)]
                ELSE st.border,
     display |-> IF fmt.visible # "None" /\ st.display = TRUE
                 THEN fmt.visible = "True" ELSE st.display]
ApplyFormat(cfg, st, fmt) ==
    [color |-> IF fmt.text_color # "None"
               THEN ResolveColor(fmt.text_color) ELSE st.color,
     background |-> IF fmt.background_color # "None"
                    THEN ResolveColor(fmt.background_color) ELSE st.background,
     border |-> IF fmt.border_color # "None"
                THEN [style |-> cfg.border_style,
                      color |-> ResolveColor(fmt.border_color)]
                ELSE st.border,
     display |-> IF fmt.visible # "None" THEN fmt.visible = "True" ELSE st.display]

\* the loop "for fmt in self.config.conditional_formats" over the formats 1..n
RECURSIVE ApplyFormatsUpTo(_, _, _)
ApplyFormatsUpTo(cfg, value, n) ==
    IF n = 0 THEN NeutralStyle
    ELSE LET st == ApplyFormatsUpTo(cfg, value, n - 1)
             fmt == cfg.conditional_formats[n]
         IN  IF EvaluateCondition(fmt.condition, value)
             THEN ApplyFormat(cfg, st, fmt)
             ELSE st

\* _apply_conditional_formatting: the style it leaves, whatever the style was,
\* and the number of conditions it evaluated
ApplyConditionalFormattingMutNoReset(cfg, w, value) ==
    IF value = NoneV
    THEN [style |-> StyleOf(w), evaluated |-> 0]
    ELSE [style |-> ApplyFormatsUpTo(cfg, value, Len(cfg.conditional_formats)),
          evaluated |-> Len(cfg.conditional_formats)]
ApplyConditionalFormatting(cfg, w, value) ==
    IF value = NoneV
    THEN [style |-> NeutralStyle, evaluated |-> 0]
    ELSE [style |-> ApplyFormatsUpTo(cfg, value, Len(cfg.conditional_formats)),
          evaluated |-> Len(cfg.conditional_formats)]

----------------------------------------------------------------------------
(* MetricWidget: construction and update_value *)

\* the widget after __init__ and compose: current_value None, an empty deque,
\* the child widgets of its type with their first content, no style set.
\* (__init__ also reads config.title and config.subtitle, which
\* schema.WidgetConfig does not declare; the model takes a config object that
\* carries them, so that the widget can be constructed.)
InitWidget(cfg) ==
    [current_value |-> NoneV,
     value_widget |-> CASE cfg.type = "digits" -> Text("dashes", 0)
                        [] cfg.type = "text" -> Text("loading", 0)
                        [] OTHER -> NoText,
     value_text |-> IF cfg.type \in {"sparkline", "progress"}
                    THEN Text("loading", 0) ELSE NoText,
     spark |-> IF cfg.type = "sparkline" THEN <<0>> ELSE <<>>,
     progress |-> 0,
     sparkline_data |-> <<>>,
     color |-> NoColor, background |-> NoColor, border |-> NoBorder,
     display |-> TRUE]

\* _update_widget_display: only a Static or Digits value widget takes the text
UpdateWidgetDisplay(cfg, w, text) ==
    IF cfg.type \in {"text", "digits"}
    THEN [w EXCEPT !.value_widget = text]
    ELSE w

\* deque(maxlen=n).append(x)
DequeAppendMutNoEvict(d, x, maxlen) == Append(d, x)
DequeAppend(d, x, maxlen) ==
    IF maxlen = 0 THEN <<>>
    ELSE IF Len(d) >= maxlen THEN Append(Tail(d), x)
    ELSE Append(d, x)

\* an except (ValueError, TypeError) clause catches exc
IsValueOrTypeError(exc) == exc \in {"ValueError", TypeErrorExc}

\* _update_sparkline.  A result is [raised, exc, w]: w is the widget as the call
\* left it, also when it raised.
UpdateSparklineMutAppendOnError(cfg, w, value) ==
    LET f == Float(value)
        data == DequeAppend(w.sparkline_data, f.n, cfg.sparkline_data_points)
        w1 == [w EXCEPT !.sparkline_data = data, !.spark = data]
        fv == FormatValue(cfg, value)
    IN  IF ~f.ok \/ (fv.raised /\ IsValueOrTypeError(fv.exc))
        THEN [raised |-> FALSE, exc |-> "",
              w |-> [w1 EXCEPT !.value_text = Text("Error", 0)]]
        ELSE IF ~fv.raised
        THEN [raised |-> FALSE, exc |-> "",
              w |-> [w1 EXCEPT !.value_text = fv.text]]
        ELSE [raised |-> TRUE, exc |-> fv.exc, w |-> w1]
UpdateSparkline(cfg, w, value) ==
    LET f == Float(value) IN
    IF ~f.ok
    THEN [raised |-> FALSE, exc |-> "",
          w |-> [w EXCEPT !.value_text = Text("Error", 0)]]
    ELSE LET data == DequeAppend(w.sparkline_data, f.n, cfg.sparkline_data_points)
             w1 == [w EXCEPT !.sparkline_data = data, !.spark = data]
             fv == FormatValue(cfg, value)
         IN  IF ~fv.raised
             THEN [raised |-> FALSE, exc |-> "",
                   w |-> [w1 EXCEPT !.value_text = fv.text]]
             ELSE IF IsValueOrTypeError(fv.exc)
             THEN [raised |-> FALSE, exc |-> "",
                   w |-> [w1 EXCEPT !.value_text = Text("Error", 0)]]
             ELSE [raised |-> TRUE, exc |-> fv.exc, w |-> w1]

\* _update_progress
UpdateProgress(cfg, w, value) ==
    LET f == Float(value) IN
    IF ~f.ok
    THEN [raised |-> FALSE, exc |-> "",
          w |-> [w EXCEPT !.value_text = Text("Error", 0)]]
    ELSE LET w1 == [w EXCEPT !.progress = f.n]
             fv == FormatValue(cfg, value)
         IN  IF ~fv.raised
             THEN [raised |-> FALSE, exc |-> "",
                   w |-> [w1 EXCEPT !.value_text = fv.text]]
             ELSE IF IsValueOrTypeError(fv.exc)
             THEN [raised |-> FALSE, exc |-> "",
                   w |-> [w1 EXCEPT !.value_text = Text("Error", 0)]]
             ELSE [raised |-> TRUE, exc |-> fv.exc, w |-> w1]

\* the digits and text branches of update_value
UpdateText(cfg, w, value) ==
    LET fv == FormatValue(cfg, value) IN
    IF fv.raised
    THEN [raised |-> TRUE, exc |-> fv.exc, w |-> w]
    ELSE [raised |-> FALSE, exc |-> "", w |-> UpdateWidgetDisplay(cfg, w, fv.text)]

\* update_value's try block up to "# Apply conditional formatting"
UpdateDisplay(cfg, w, value) ==
    LET w1 == [w EXCEPT !.current_value = value] IN
    CASE value = NoneV ->
            [raised |-> FALSE, exc |-> "",
             w |-> UpdateWidgetDisplay(cfg, w1, Text("nodata", 0))]
      [] value.k = "err" ->
            [raised |-> FALSE, exc |-> "",
             w |-> UpdateWidgetDisplay(cfg, w1, Text("errmsg", value.n))]
      [] OTHER ->
            CASE cfg.type = "sparkline" -> UpdateSparkline(cfg, w1, value)
              [] cfg.type = "progress" -> UpdateProgress(cfg, w1, value)
              [] OTHER -> UpdateText(cfg, w1, value)

\* update_value.  The result is the widget after the call, whether the except
\* clause ran (failed), and the conditions the styling step evaluated (-1 when
\* the styling step did not run).
UpdateValue(cfg, w, value) ==
    LET r == UpdateDisplay(cfg, w, value) IN
    IF ~r.raised
    THEN LET cf == ApplyConditionalFormatting(cfg, r.w, value) IN
         [w |-> [r.w EXCEPT !.color = cf.style.color,
                            !.background = cf.style.background,
                            !.border = cf.style.border,
                            !.display = cf.style.display],
          failed |-> FALSE, evaluated |-> cf.evaluated]
    ELSE [w |-> [UpdateWidgetDisplay(cfg, r.w, ExcText(r.exc))
                    EXCEPT !.current_value = NoneV],
          failed |-> TRUE, evaluated |-> -1]

----------------------------------------------------------------------------
(* Configurations *)

\* WidgetConfig (schema.py), the fields the model reads
WidgetConfig(type, query, fs, rules, points, row, column, row_span, column_span) ==
    [type |-> type, query |-> query, format_string |-> fs,
     border_style |-> "solid", conditional_formats |-> rules,
     sparkline_data_points |-> points,
     row |-> row, column |-> column,
     row_span |-> row_span, column_span |-> column_span]

\* sparkline_data_points' default
DefaultDataPoints == 20

\* a text widget with the defaults, at a place of the grid
Placed(type, query, row, column, row_span, column_span) ==
    WidgetConfig(type, query, FmtPlain, <<>>, DefaultDataPoints,
                 row, column, row_span, column_span)

\* DashboardConfig (schema.py)
DashboardConfig(t, interval, rows, columns, widgets) ==
    [title |-> t, refresh_interval |-> interval,
     grid_rows |-> rows, grid_columns |-> columns, widgets |-> widgets]

\* all sequences over S of length at most n
SeqsUpTo(S, n) == UNION {[1 .. k -> S] : k \in 0 .. n}

\* the dashboards SpecGrid draws: a GridRows x GridCols grid and up to MaxSpecs
\* widgets, each starting inside the grid
GridWidgets ==
    {Placed("text", "up", r, c, rs, cs) :
        r \in 0 .. GridRows - 1, c \in 0 .. GridCols - 1, rs \in Spans, cs \in Spans}
GridConfigs ==
    {DashboardConfig("grid", 5, GridRows, GridCols, ws) :
        ws \in SeqsUpTo(GridWidgets, MaxSpecs)}

\* the widgets SpecWidget draws
WidgetTypes == {"text", "digits", "sparkline", "progress"}
SmallCaps == {0, 1}
WidgetConfigs ==
    {WidgetConfig(ty, "up", fs, rules, pts, 0, 0, 1, 1) :
        ty \in WidgetTypes, fs \in Templates,
        rules \in SeqsUpTo(Rules, MaxRules), pts \in SmallCaps}

\* the widgets SpecSpark draws: sparklines of every capacity up to MaxHistory
SparkConfigs ==
    {WidgetConfig("sparkline", "up", fs, <<>>, pts, 0, 0, 1, 1) :
        fs \in {FmtPlain, FmtOther}, pts \in 0 .. MaxHistory}

\* the dashboards of the carousel, in the order of the command line
Dashboard(i) ==
    CASE i = 1 ->
            DashboardConfig("A", 5, 1, 2,
                <<Placed("digits", "up", 0, 0, 1, 1),
                  Placed("text", "load", 0, 0, 1, 2)>>)
      [] i = 2 ->
            DashboardConfig("B", 10, 2, 2,
                <<Placed("text", "up", 0, 0, 2, 2),
                  Placed("digits", "up", 1, 1, 1, 1)>>)
      [] i = 3 ->
            DashboardConfig("C", 30, 1, 1,
                <<WidgetConfig("sparkline", "up", FmtPlain,
                               <<Rule(CondGt10, "blue", "None", "None", "None")>>,
                               2, 0, 0, 1, 1)>>)
      [] OTHER ->
            DashboardConfig("D", 60, 1, 1, <<Placed("text", "up", 0, 0, 1, 1)>>)

CarouselConfigs == {[i \in 1 .. n |-> Dashboard(i)] : n \in 1 .. MaxDashboards}

----------------------------------------------------------------------------
(* The values of the variables a specification does not use *)

IdleGrid ==
    /\ gconfig = DashboardConfig("grid", 5, GridRows, GridCols, <<>>)
    /\ grid_cells = <<>>
    /\ yielded = <<>>
    /\ gpc = "idle"

NoUpdate == [op |-> "init", value |-> NoneV, failed |-> FALSE, evaluated |-> -1,
             was_styled |-> FALSE]

IdleWidget ==
    /\ wconfig = Placed("text", "up", 0, 0, 1, 1)
    /\ widget = InitWidget(wconfig)
    /\ wlast = NoUpdate
    /\ received = <<>>

NoHandler == [op |-> "init", from |-> 0, timer |-> 0, refreshed |-> <<>>,
              passed |-> <<>>, results |-> <<>>, outcomes |-> <<>>]

IdleApp ==
    /\ configs = <<>>
    /\ current_dashboard_index = 0
    /\ timers = <<>>
    /\ refresh_timer_id = 0
    /\ screen_views = {}
    /\ title = ""
    /\ dom = <<>>
    /\ pending_mount = -1
    /\ started = FALSE
    /\ last = NoHandler

IdleLoop ==
    /\ posted = <<>>
    /\ in_progress = <<>>
    /\ live_timers = 0

----------------------------------------------------------------------------
(* SpecGrid: DashboardView.compose *)

GridInit ==
    /\ gconfig \in GridConfigs
    /\ grid_cells = <<>>
    /\ yielded = <<>>
    /\ gpc = "init"
    /\ IdleWidget
    /\ IdleApp
    /\ IdleLoop

\* DashboardView.compose
compose ==
    /\ gpc = "init"
    /\ IF RaisesIndexError(gconfig)
       THEN /\ grid_cells' = <<>>
            /\ yielded' = <<>>
            /\ gpc' = "failed"
       ELSE /\ grid_cells' = PlaceAll(gconfig)
            /\ yielded' = ComposeYield(gconfig)
            /\ gpc' = "composed"
    /\ UNCHANGED <<gconfig, wvars, avars, lvars>>

GridNext == compose

SpecGrid == GridInit /\ [][GridNext]_vars


\* the rectangles of no two widgets share a cell
NonOverlapping(cfg) ==
    \A i, j \in 1 .. Len(cfg.widgets) :
        i < j => RectCells(cfg.widgets[i]) \cap RectCells(cfg.widgets[j]) = {}

\* validate_widget_positions: every rectangle lies within the grid
WithinGrid(cfg) ==
    \A i \in 1 .. Len(cfg.widgets) :
        /\ cfg.widgets[i].row + cfg.widgets[i].row_span <= cfg.grid_rows
        /\ cfg.widgets[i].column + cfg.widgets[i].column_span <= cfg.grid_columns

\* the widgets whose rectangle contains the cell
Claimants(cfg, cell) ==
    {i \in 1 .. Len(cfg.widgets) : cell \in RectCells(cfg.widgets[i])}

\* Primary of widget i on its top-left cell, Occupied on its other cells
TagFor(cfg, i, cell) ==
    IF cell = <<cfg.widgets[i].row, cfg.widgets[i].column>>
    THEN WidgetCell(i) ELSE OccupiedCell

\* C4: for widget specs that are pairwise non-overlapping and within the grid,
\* after placement every cell of a spec's rectangle is that spec's Primary cell
\* if it is the rectangle's top-left cell and Occupied otherwise, and every cell
\* in no rectangle is Empty.
C4_PlacementOfDisjointSpecs ==
    (gpc = "composed" /\ NonOverlapping(gconfig) /\ WithinGrid(gconfig)) =>
        \A cell \in DOMAIN grid_cells :
            /\ \A i \in Claimants(gconfig, cell) :
                   grid_cells[cell] = TagFor(gconfig, i, cell)
            /\ Claimants(gconfig, cell) = {} => grid_cells[cell] = NoneCell

\* two disjoint specs within the grid were placed, one spanning several cells,
\* and a cell is left unclaimed
C4_Witness ==
    /\ gpc = "composed" /\ NonOverlapping(gconfig) /\ WithinGrid(gconfig)
    /\ Len(gconfig.widgets) = 2
    /\ \E cell \in DOMAIN grid_cells : grid_cells[cell] = OccupiedCell
    /\ \E cell \in DOMAIN grid_cells : grid_cells[cell] = NoneCell
    /\ \E cell \in DOMAIN grid_cells : grid_cells[cell] = WidgetCell(2)

\* C5: with overlapping rectangles the final tag of a cell is the one written
\* by the last spec in input order whose rectangle contains it (Primary of that
\* spec on its top-left cell, Occupied otherwise), also where the cell was an
\* earlier spec's Primary cell; placement completes whatever the overlap.
C5_LastWriterWins ==
    gpc = "composed" =>
        \A cell \in DOMAIN grid_cells :
            IF Claimants(gconfig, cell) = {}
            THEN grid_cells[cell] = NoneCell
            ELSE grid_cells[cell] =
                    TagFor(gconfig, SetMax(Claimants(gconfig, cell)), cell)

\* placement completed on two overlapping specs: the first spec's Primary cell
\* is Occupied by the second, or is the second's Primary cell
C5_Witness ==
    /\ gpc = "composed"
    /\ Len(gconfig.widgets) = 2
    /\ ~NonOverlapping(gconfig)
    /\ LET first == <<gconfig.widgets[1].row, gconfig.widgets[1].column>> IN
       /\ first \in RectCells(gconfig.widgets[2])
       /\ grid_cells[first] = OccupiedCell

----------------------------------------------------------------------------
(* SpecWidget and SpecSpark: MetricWidget.update_value *)

WidgetInit ==
    /\ wconfig \in WidgetConfigs
    /\ widget = InitWidget(wconfig)
    /\ wlast = NoUpdate
    /\ received = <<>>
    /\ IdleGrid
    /\ IdleApp
    /\ IdleLoop

SparkInit ==
    /\ wconfig \in SparkConfigs
    /\ widget = InitWidget(wconfig)
    /\ wlast = NoUpdate
    /\ received = <<>>
    /\ IdleGrid
    /\ IdleApp
    /\ IdleLoop

\* one call of update_value on the widget
Update(value) ==
    LET r == UpdateValue(wconfig, widget, value) IN
    /\ widget' = r.w
    /\ wlast' = [op |-> "update", value |-> value, failed |-> r.failed,
                 evaluated |-> r.evaluated,
                 was_styled |-> StyleOf(widget) # NeutralStyle]
    /\ UNCHANGED <<wconfig, gvars, avars, lvars>>

update_value ==
    \E value \in Values :
        /\ Update(value)
        /\ UNCHANGED received

\* update_value, with the values float() accepts logged in arrival order
update_value_logged ==
    \E value \in Values :
        /\ Len(received) < MaxUpdates
        /\ Update(value)
        /\ received' = IF Float(value).ok /\ value.k \notin {"none", "err"}
                       THEN Append(received, Float(value).n)
                       ELSE received

WidgetNext == update_value
SparkNext == update_value_logged

SpecWidget == WidgetInit /\ [][WidgetNext]_vars
SpecSpark == SparkInit /\ [][SparkNext]_vars


Min(a, b) == IF a <= b THEN a ELSE b

\* the last n entries of a sequence
LastN(seq, n) == SubSeq(seq, Len(seq) - n + 1, Len(seq))

\* C6: the history of a sparkline widget of capacity N holds at most N entries
\* and is the last min(k, N) of the k values float() accepted, in arrival order.
C6_SparklineHistory ==
    wconfig.type = "sparkline" =>
        /\ Len(widget.sparkline_data) <= wconfig.sparkline_data_points
        /\ widget.sparkline_data =
              LastN(received, Min(Len(received), wconfig.sparkline_data_points))

\* a sparkline of capacity 3 was fed four numbers: the oldest is gone
C6_Witness ==
    /\ wconfig.type = "sparkline"
    /\ wconfig.sparkline_data_points = 3
    /\ Len(received) = 4
    /\ received[1] # received[2]
    /\ widget.sparkline_data = Tail(received)

\* the rules of the list that are true of the value and set the field
Setting(cfg, value, field) ==
    {i \in 1 .. Len(cfg.conditional_formats) :
        /\ EvaluateCondition(cfg.conditional_formats[i].condition, value)
        /\ cfg.conditional_formats[i][field] # "None"}

\* the style the rules give a value, field by field: what the last true rule
\* that sets the field says, the neutral default where there is none
ExpectedStyle(cfg, value) ==
    LET last_of(field) == cfg.conditional_formats[SetMax(Setting(cfg, value, field))]
    IN  IF value = NoneV THEN NeutralStyle
        ELSE [color |-> IF Setting(cfg, value, "text_color") = {} THEN NoColor
                        ELSE ResolveColor(last_of("text_color").text_color),
              background |->
                        IF Setting(cfg, value, "background_color") = {} THEN NoColor
                        ELSE ResolveColor(last_of("background_color").background_color),
              border |-> IF Setting(cfg, value, "border_color") = {} THEN NoBorder
                         ELSE [style |-> cfg.border_style,
                               color |-> ResolveColor(last_of("border_color").border_color)],
              display |-> IF Setting(cfg, value, "visible") = {} THEN TRUE
                          ELSE last_of("visible").visible = "True"]

\* C7: after any update of a widget, the failure path included, its style is
\* the result of applying the conditional rules to the new value from the
\* neutral default: no colour or hidden state of an earlier value survives.
\* (An update that ends in the failure path resets current_value to None, so
\* the neutral default is accepted there as well: what is left to violate the
\* formula is a style that survived from an earlier value.)
C7_StyleOfEveryUpdate ==
    wlast.op = "update" =>
        \/ StyleOf(widget) = ExpectedStyle(wconfig, wlast.value)
        \/ wlast.failed /\ StyleOf(widget) = NeutralStyle

\* C8: resolving the style for an absent value yields the neutral default
\* without evaluating any rule, whatever style the widget had before.
C8_AbsentResetsStyle ==
    (wlast.op = "update" /\ wlast.value = NoneV) =>
        /\ StyleOf(widget) = NeutralStyle
        /\ wlast.evaluated = 0

\* a widget with rules, styled by an earlier value, was updated with None
C8_Witness ==
    /\ wlast.op = "update" /\ wlast.value = NoneV
    /\ wlast.was_styled
    /\ Len(wconfig.conditional_formats) = 2
    /\ StyleOf(widget) = NeutralStyle

\* C9: the rules are applied in configured order: each style field is the one
\* set by the last rule of the list whose condition is true and which sets
\* that field.
C9_LaterRuleWins ==
    (wlast.op = "update" /\ ~wlast.failed /\ wlast.value # NoneV) =>
        StyleOf(widget) = ExpectedStyle(wconfig, wlast.value)

\* rules [value > 0 -> border red, value > 10 -> border blue], value 15:
\* the border is blue
C9_Witness ==
    /\ wlast.op = "update" /\ ~wlast.failed /\ wlast.value = NumV(15)
    /\ wconfig.conditional_formats =
          <<Rule(CondGt0, "red", "None", "None", "None"),
            Rule(CondGt10, "blue", "None", "None", "None")>>
    /\ widget.border = [style |-> "solid", color |-> ResolveColor("blue")]

----------------------------------------------------------------------------
(* PrometheusClient *)

\* what one call of PrometheusClient.query does: return a value (None when the
\* result is empty) or raise
QueryReturns(v) == [raised |-> FALSE, value |-> v]
QueryRaises == [raised |-> TRUE, value |-> NoneV]
QueryOutcomes == {QueryReturns(NoneV), QueryReturns(NumV(1)),
                  QueryReturns(NumV(15)), QueryRaises}

\* query_batch: the queries are run in order, outcomes[k] is what the k-th call
\* of self.query does; results[query_string] is assigned once per occurrence, so
\* the last occurrence of a query string decides its entry
QueryBatchMutStopAtFailure(queries, outcomes) ==
    LET fails == {j \in 1 .. Len(queries) : outcomes[j].raised}
        n == IF fails = {} THEN Len(queries)
             ELSE CHOOSE j \in fails : \A i \in fails : j <= i
    IN  [q \in {queries[k] : k \in 1 .. n} |->
            LET k == SetMax({j \in 1 .. n : queries[j] = q}) IN
            IF outcomes[k].raised THEN ErrV ELSE outcomes[k].value]
QueryBatch(queries, outcomes) ==
    [q \in {queries[k] : k \in 1 .. Len(queries)} |->
        LET k == SetMax({j \in 1 .. Len(queries) : queries[j] = q}) IN
        IF outcomes[k].raised THEN ErrV ELSE outcomes[k].value]

\* results.get(query)
GetMutMissingKey(results, query) == NoneV
Get(results, query) ==
    IF query \in DOMAIN results THEN results[query] ELSE NoneV

----------------------------------------------------------------------------
(* DashboardView *)

\* the MetricWidgets of a view the toolkit has composed: one fresh widget for
\* every MetricWidget compose yielded, by the index of its spec
ComposedWidgets(cfg) ==
    LET ws == DomWidgets(cfg) IN
    [i \in {ws[k] : k \in 1 .. Len(ws)} |-> InitWidget(cfg.widgets[i])]

\* self.query(MetricWidget): the view's MetricWidget descendants in document
\* order; none while the view has not been composed
QueryMetricWidgets(cfg, domv) ==
    SelectSeq(DomWidgets(cfg), LAMBDA i : i \in DOMAIN domv)

\* refresh_all_metrics on the view of cfg whose MetricWidgets are domv: the
\* widgets after it, the (widget, value) of every update_value call in order,
\* and the batch results
RefreshAllMetrics(cfg, domv, outcomes) ==
    LET queries == [i \in 1 .. Len(cfg.widgets) |-> cfg.widgets[i].query]
        results == QueryBatch(queries, outcomes)
        elements == QueryMetricWidgets(cfg, domv)
        touched == {elements[k] : k \in 1 .. Len(elements)}
    IN  [dom |-> [i \in DOMAIN domv |->
                    IF i \in touched
                    THEN UpdateValue(cfg.widgets[i], domv[i],
                                     Get(results, cfg.widgets[i].query)).w
                    ELSE domv[i]],
         passed |-> [k \in 1 .. Len(elements) |->
                        [w |-> elements[k],
                         value |-> Get(results, cfg.widgets[elements[k]].query)]],
         results |-> results]

----------------------------------------------------------------------------
(* Spec: PrometheusDashboard *)

\* self.configs[i] and len(self.configs), i counted from 0 as in the code
ConfigAt(i) == configs[i + 1]
N == Len(configs)

\* the outcomes of the queries of one batch on dashboard i
Outcomes(i) == [1 .. Len(ConfigAt(i).widgets) -> QueryOutcomes]

\* __init__ and compose of the app: index 0, every view created, the first
\* one yielded to the screen (and composed by the toolkit before on_mount)
Init ==
    /\ configs \in CarouselConfigs
    /\ current_dashboard_index = 0
    /\ timers = <<>>
    /\ refresh_timer_id = 0
    /\ screen_views = {0}
    /\ title = ""
    /\ dom = [i \in 0 .. Len(configs) - 1 |->
                IF i = 0 THEN ComposedWidgets(configs[1]) ELSE <<>>]
    /\ pending_mount = -1
    /\ started = FALSE
    /\ last = NoHandler
    /\ IdleGrid
    /\ IdleWidget
    /\ IdleLoop

\* _refresh_current_dashboard: refresh_all_metrics on the view at the current
\* index (index i, as the caller has set it)
RefreshCurrentDashboard(op, i, from, timer, outcomes) ==
    LET r == RefreshAllMetrics(ConfigAt(i), dom[i], outcomes) IN
    /\ dom' = [dom EXCEPT ![i] = r.dom]
    /\ last' = [op |-> op, from |-> from, timer |-> timer, refreshed |-> <<i>>,
                passed |-> r.passed, results |-> r.results, outcomes |-> outcomes]

\* the timer set_interval creates for the dashboard at index i
\* (home: the index that was current when the timer was created; the timer
\* itself holds only the interval and the bound method)
NewTimer(i) == [interval |-> ConfigAt(i).refresh_interval, home |-> i]

\* _start_refresh_timer: a new interval timer for the current dashboard (the
\* timers set before keep running: nothing stops them), then one refresh
StartRefreshTimerMutNoRefresh(op, i, from, outcomes) ==
    /\ timers' = Append(timers, NewTimer(i))
    /\ refresh_timer_id' = Len(timers) + 1
    /\ dom' = dom
    /\ last' = [NoHandler EXCEPT !.op = op, !.from = from]
StartRefreshTimer(op, i, from, outcomes) ==
    /\ timers' = Append(timers, NewTimer(i))
    /\ refresh_timer_id' = Len(timers) + 1
    /\ RefreshCurrentDashboard(op, i, from, 0, outcomes)

\* on_mount
on_mount ==
    /\ ~started
    /\ started' = TRUE
    /\ title' = configs[1].title
    /\ \E outcomes \in Outcomes(0) :
           StartRefreshTimer("on_mount", 0, 0, outcomes)
    /\ UNCHANGED <<configs, current_dashboard_index, screen_views, pending_mount,
                   gvars, wvars, lvars>>

\* a handler that returns at once
NoOp(op) ==
    /\ last' = [NoHandler EXCEPT !.op = op, !.from = current_dashboard_index]
    /\ UNCHANGED <<configs, current_dashboard_index, timers, refresh_timer_id,
                   screen_views, title, dom, pending_mount, started, gvars, wvars, lvars>>

\* old_view.remove(): the view leaves the screen
RemoveViewMutKeep(views, i) == views
RemoveView(views, i) == views \ {i}

\* self.mount(new_view, before=...): the view joins the screen
MountView(views, i) == views \cup {i}

\* _switch_dashboard: the old view is removed (the toolkit prunes its
\* children), the new one is mounted: it joins the screen at once and is
\* composed by the toolkit after the handler returns; the index and title
\* change and the timer is started, with its immediate refresh
SwitchDashboard(op, new_index) ==
    IF new_index = current_dashboard_index
    THEN NoOp(op)
    ELSE /\ Len(timers) <= MaxSwitches
         /\ screen_views' = MountView(RemoveView(screen_views, current_dashboard_index),
                                      new_index)
         /\ pending_mount' = new_index
         /\ current_dashboard_index' = new_index
         /\ title' = ConfigAt(new_index).title
         /\ \E outcomes \in Outcomes(new_index) :
               LET r == RefreshAllMetrics(ConfigAt(new_index), dom[new_index], outcomes) IN
               /\ timers' = Append(timers, NewTimer(new_index))
               /\ refresh_timer_id' = Len(timers) + 1
               /\ dom' = [dom EXCEPT ![current_dashboard_index] = <<>>,
                                     ![new_index] = r.dom]
               /\ last' = [op |-> op, from |-> current_dashboard_index, timer |-> 0,
                           refreshed |-> <<new_index>>, passed |-> r.passed,
                           results |-> r.results, outcomes |-> outcomes]
         /\ UNCHANGED <<configs, started, gvars, wvars, lvars>>

\* (self.current_dashboard_index + 1) % len(self.configs)
NextIndexMutClamp(i, n) == IF i + 1 >= n THEN i ELSE i + 1
NextIndex(i, n) == (i + 1) % n

\* (self.current_dashboard_index - 1) % len(self.configs), Python's %
PreviousIndex(i, n) == (i - 1) % n

\* a handler runs when the app is mounted and the toolkit has finished the
\* mount the last handler asked for
Idle == started /\ pending_mount = -1

\* action_next_screen
action_next_screen ==
    /\ Idle
    /\ IF N <= 1 THEN NoOp("next")
       ELSE SwitchDashboard("next", NextIndex(current_dashboard_index, N))

\* action_previous_screen
action_previous_screen ==
    /\ Idle
    /\ IF N <= 1 THEN NoOp("previous")
       ELSE SwitchDashboard("previous", PreviousIndex(current_dashboard_index, N))

\* action_refresh
action_refreshMutRestartsTimer ==
    /\ Idle
    /\ Len(timers) <= MaxSwitches
    /\ \E outcomes \in Outcomes(current_dashboard_index) :
           StartRefreshTimer("refresh", current_dashboard_index,
                             current_dashboard_index, outcomes)
    /\ UNCHANGED <<configs, current_dashboard_index, screen_views, title,
                   pending_mount, started, gvars, wvars, lvars>>
action_refresh ==
    /\ Idle
    /\ \E outcomes \in Outcomes(current_dashboard_index) :
           RefreshCurrentDashboard("refresh", current_dashboard_index,
                                   current_dashboard_index, 0, outcomes)
    /\ UNCHANGED <<configs, current_dashboard_index, timers, refresh_timer_id,
                   screen_views, title, pending_mount, started, gvars, wvars, lvars>>

\* self.dashboard_views[self.current_dashboard_index] in the callback of timer
\* t: the index is read when the timer fires
TickTargetMutCaptured(t) == timers[t].home
TickTarget(t) == current_dashboard_index

\* an interval timer fires whenever one is live and the event loop is free:
\* set_interval keeps calling the callback whatever the earlier calls did
TickGuardMutStopsOnError ==
    /\ Idle
    /\ timers # <<>>
    /\ \A q \in DOMAIN last.results : last.results[q] # ErrV
TickGuard == Idle /\ timers # <<>>

\* a tick of one of the interval timers: its callback is
\* _refresh_current_dashboard
timer_tick ==
    /\ TickGuard
    /\ \E t \in 1 .. Len(timers) :
       \E outcomes \in Outcomes(TickTarget(t)) :
           RefreshCurrentDashboard("tick", TickTarget(t),
                                   current_dashboard_index, t, outcomes)
    /\ UNCHANGED <<configs, current_dashboard_index, timers, refresh_timer_id,
                   screen_views, title, pending_mount, started, gvars, wvars, lvars>>

\* the toolkit finishes a mount: the mounted view's compose runs and its
\* MetricWidgets are created.  self.mount() returns an awaitable that
\* _switch_dashboard does not await: the handler is synchronous, so the view's
\* compose cannot run before it returns, and the toolkit completes the mount
\* before the app's next handler (Idle).
mount_complete ==
    /\ pending_mount # -1
    /\ dom' = [dom EXCEPT ![pending_mount] = ComposedWidgets(ConfigAt(pending_mount))]
    /\ pending_mount' = -1
    /\ UNCHANGED <<configs, current_dashboard_index, timers, refresh_timer_id,
                   screen_views, title, started, last, gvars, wvars, lvars>>

Next ==
    \/ on_mount
    \/ action_next_screen
    \/ action_previous_screen
    \/ action_refresh
    \/ timer_tick
    \/ mount_complete

Spec == Init /\ [][Next]_vars


\* C1: in every state after the app is mounted exactly one periodic refresh
\* timer is live, and its period is the refresh interval of the dashboard at
\* the current index.
C1_OneTimerOfCurrentDashboard ==
    started =>
        /\ Len(timers) = 1
        /\ timers[1].interval = ConfigAt(current_dashboard_index).refresh_interval

\* what a handler that is a no-op leaves alone: the index, the mounted view,
\* the timers, the widgets; and it triggers no refresh
HandlerIsNoOp ==
    /\ UNCHANGED <<current_dashboard_index, screen_views, pending_mount, timers,
                   refresh_timer_id, dom, title>>
    /\ last'.refreshed = <<>>

\* C2: with N dashboards and index i, next sets the index to (i+1) mod N and
\* previous to (i-1+N) mod N, the index stays in [0, N), and with N <= 1 both
\* are no-ops.
C2_Wraparound ==
    /\ [](current_dashboard_index \in 0 .. N - 1)
    /\ [][/\ action_next_screen =>
                IF N <= 1 THEN HandlerIsNoOp
                ELSE current_dashboard_index' = (current_dashboard_index + 1) % N
          /\ action_previous_screen =>
                IF N <= 1 THEN HandlerIsNoOp
                ELSE current_dashboard_index' = (current_dashboard_index - 1 + N) % N
         ]_vars

\* with 3 dashboards, next from index 2 arrived at index 0
C2_Witness ==
    /\ N = 3
    /\ last.op = "next"
    /\ last.from = 2
    /\ current_dashboard_index = 0

\* the widgets update_value was called on by the last handler
Updated == {last.passed[k].w : k \in 1 .. Len(last.passed)}

\* the MetricWidgets a dashboard shows: those compose yields
Shown(cfg) == {DomWidgets(cfg)[k] : k \in 1 .. Len(DomWidgets(cfg))}

\* C3: a next or previous that changed the index triggered exactly one
\* refreshAll, on the view at the new index, and that refresh updated the
\* widgets the new dashboard shows.
C3_SwitchRefreshesNewView ==
    (last.op \in {"next", "previous"} /\ last.from # current_dashboard_index) =>
        /\ last.refreshed = <<current_dashboard_index>>
        /\ Updated = Shown(ConfigAt(current_dashboard_index))

\* C10: a refreshAll on a dashboard calls updateValue exactly once on every
\* widget configured for it, with the batch result of the widget's own query.
\* (Stated for the refreshes of on_mount, the manual refresh and the timer
\* ticks, which run on a view the toolkit has composed.)
C10_EveryConfiguredWidgetUpdated ==
    last.op \in {"on_mount", "refresh", "tick"} =>
        LET cfg == ConfigAt(current_dashboard_index) IN
        \A i \in 1 .. Len(cfg.widgets) :
            /\ Cardinality({k \in 1 .. Len(last.passed) : last.passed[k].w = i}) = 1
            /\ \A k \in 1 .. Len(last.passed) :
                   last.passed[k].w = i =>
                       last.passed[k].value = Get(last.results, cfg.widgets[i].query)

\* the query string of the widget the k-th update_value call of the last
\* handler was made on
PassedQuery(k) == ConfigAt(last.refreshed[1]).widgets[last.passed[k].w].query

\* C11: within one refreshAll, any two widgets of the dashboard that have the
\* same query string are updated with the identical value or error, the entry
\* of the one batch result under that query string.
C11_SameQuerySameValue ==
    last.refreshed # <<>> =>
        \A j, k \in 1 .. Len(last.passed) :
            PassedQuery(j) = PassedQuery(k) =>
                /\ last.passed[j].value = last.passed[k].value
                /\ last.passed[j].value = last.results[PassedQuery(j)]

\* a tick on dashboard B, whose two widgets both query "up": the two calls of
\* query("up") returned 1 and 15, and both widgets were updated with 15
C11_Witness ==
    /\ last.op = "tick"
    /\ ConfigAt(current_dashboard_index).title = "B"
    /\ last.outcomes[1] = QueryReturns(NumV(1))
    /\ last.outcomes[2] = QueryReturns(NumV(15))
    /\ \E j, k \in 1 .. Len(last.passed) :
           /\ last.passed[j].w = 1 /\ last.passed[k].w = 2
           /\ last.passed[j].value = NumV(15)
           /\ last.passed[k].value = NumV(15)

----------------------------------------------------------------------------
(* Error handling of update_value and _format_value *)

\* the text a widget shows for its value: the Static or Digits value widget of
\* a text or digits widget, the Static text label under a sparkline or a
\* progress bar
Displayed(cfg, w) ==
    IF cfg.type \in {"text", "digits"} THEN w.value_widget ELSE w.value_text

\* C12: updateValue never propagates a failure: when the kind-specific update
\* or the styling step fails, the widget, of any kind, displays an error string
\* derived from the failure and its currentValue is reset to absent.
C12_FailureShowsError ==
    (wlast.op = "update" /\ wlast.failed) =>
        /\ Displayed(wconfig, widget).t = "exc"
        /\ widget.current_value = NoneV

\* C13: for every widget kind, when a refresh delivers an error value the
\* displayed text becomes that error message, and when it delivers absent the
\* displayed text becomes "No data".
C13_ErrorAndAbsentDisplayed ==
    wlast.op = "update" =>
        /\ wlast.value = ErrV => Displayed(wconfig, widget) = Text("errmsg", 0)
        /\ wlast.value = NoneV => Displayed(wconfig, widget) = Text("nodata", 0)

\* C14: formatting a value with a template never raises to its caller, for any
\* value (numeric or non-numeric string) and any template.
C14_FormatNeverRaises ==
    (wlast.op = "update" /\ wlast.value.k \in {"num", "str"}) =>
        ~FormatValue(wconfig, wlast.value).raised

\* C15: a digits widget with the default template "{value}" whose query
\* returns the backend value 1 displays the string "1".
C15_DigitsShowsOne ==
    last.refreshed # <<>> =>
        \A k \in 1 .. Len(last.passed) :
            LET i == last.refreshed[1]
                w == last.passed[k].w
                cfg == ConfigAt(i).widgets[w]
            IN  (/\ cfg.type = "digits"
                 /\ cfg.format_string = FmtPlain
                 /\ last.passed[k].value = NumV(1)) =>
                    dom[i][w].value_widget = Text("raw", 1)

\* the query strings refresh_all_metrics handed to query_batch in the last
\* handler, in order
BatchQueries ==
    LET cfg == ConfigAt(last.refreshed[1]) IN
    [i \in 1 .. Len(cfg.widgets) |-> cfg.widgets[i].query]

----------------------------------------------------------------------------
(* Frame conditions of the carousel *)

\* the widgets of every dashboard but the current one are as they were
OtherDashboardsUntouched ==
    \A i \in DOMAIN dom : i # current_dashboard_index => dom'[i] = dom[i]

\* C18: manualRefresh triggers exactly one refreshAll, on the view at the
\* current index, and leaves the current index, the mounted view and the set
\* of live timers unchanged; no widget of a non-active dashboard is updated.
C18_ManualRefreshFrame ==
    [][last'.op = "refresh" =>
          /\ last'.refreshed = <<current_dashboard_index>>
          /\ UNCHANGED <<current_dashboard_index, screen_views, pending_mount,
                         timers, refresh_timer_id>>
          /\ OtherDashboardsUntouched
      ]_vars

\* a manual refresh on the second of three dashboards, with two timers live,
\* updated that dashboard's widgets
C18_Witness ==
    /\ last.op = "refresh"
    /\ N = 3
    /\ current_dashboard_index = 1
    /\ Len(timers) = 2
    /\ last.refreshed = <<1>>
    /\ Len(last.passed) = 2
    /\ dom[1][1].value_widget = Text("float", 15)

\* C19: in every reachable state exactly one DashboardView is mounted, the
\* view at the current index; each index-changing transition unmounts the
\* previously active view and mounts the new one, and the title shown (once
\* the app has started) is the title of the dashboard at the current index.
C19_OneViewMounted ==
    /\ [](/\ Cardinality(screen_views) = 1
          /\ screen_views = {current_dashboard_index}
          /\ started => title = ConfigAt(current_dashboard_index).title)
    /\ [][current_dashboard_index' # current_dashboard_index =>
              /\ current_dashboard_index \in screen_views
              /\ current_dashboard_index \notin screen_views'
              /\ current_dashboard_index' \in screen_views'
              /\ title' = ConfigAt(current_dashboard_index').title
          ]_vars

\* previous from index 0 of three dashboards: view 2 alone is mounted, under
\* the title of dashboard C
C19_Witness ==
    /\ N = 3
    /\ last.op = "previous"
    /\ last.from = 0
    /\ current_dashboard_index = 2
    /\ screen_views = {2}
    /\ title = "C"

\* C20: any timer tick, whichever dashboard was active when the timer was
\* created, and any manual refresh calls updateValue only on widgets of the
\* dashboard at the current index at the time it fires; the widgets of every
\* other dashboard are left unchanged.
C20_RefreshOfCurrentOnly ==
    [][last'.op \in {"tick", "refresh"} =>
          /\ last'.refreshed = <<current_dashboard_index>>
          /\ \A k \in 1 .. Len(last'.passed) :
                 last'.passed[k].w \in DOMAIN dom[current_dashboard_index]
          /\ OtherDashboardsUntouched
      ]_vars

\* the timer created while dashboard A was current ticked while B was
\* current, and B's two widgets were updated
C20_Witness ==
    /\ last.op = "tick"
    /\ last.timer = 1
    /\ timers[1].home = 0
    /\ current_dashboard_index = 1
    /\ last.refreshed = <<1>>
    /\ Len(last.passed) = 2
    /\ dom[1][2].value_widget = Text("float", 1)

----------------------------------------------------------------------------
(* Placement past the grid and the rendering step *)

\* the cells of the grid
GridDomain(cfg) == (0 .. cfg.grid_rows - 1) \X (0 .. cfg.grid_columns - 1)

\* C21: for a spec whose rectangle extends past gridRows or gridColumns,
\* placement marks exactly the in-bounds cells of the rectangle and skips the
\* others, never indexes outside the grid and never fails; the cells outside
\* the rectangle are not changed by that spec.
C21_ClipsToGrid ==
    gpc # "init" =>
        /\ gpc = "composed"
        /\ DOMAIN grid_cells = GridDomain(gconfig)
        /\ grid_cells = PlaceAll(gconfig)
        /\ \A i \in 1 .. Len(gconfig.widgets) :
               LET before == PlaceUpTo(gconfig, i - 1)
                   after == PlaceUpTo(gconfig, i)
               IN  /\ Indexed(gconfig, gconfig.widgets[i]) \subseteq GridDomain(gconfig)
                   /\ \A cell \in GridDomain(gconfig) :
                          after[cell] = IF cell \in RectCells(gconfig.widgets[i])
                                        THEN TagFor(gconfig, i, cell)
                                        ELSE before[cell]

\* one spec at the last column with span 2 x 2: its two in-bounds cells are
\* marked (Primary, and Occupied below it), every other cell is Empty
C21_Witness ==
    /\ gpc = "composed"
    /\ Len(gconfig.widgets) = 1
    /\ gconfig.widgets[1].column = gconfig.grid_columns - 1
    /\ gconfig.widgets[1].row = 0
    /\ gconfig.widgets[1].column_span = 2
    /\ gconfig.widgets[1].row_span = 2
    /\ grid_cells[<<0, gconfig.grid_columns - 1>>] = WidgetCell(1)
    /\ grid_cells[<<1, gconfig.grid_columns - 1>>] = OccupiedCell
    /\ \A cell \in DOMAIN grid_cells : cell[2] < gconfig.grid_columns - 1 =>
           grid_cells[cell] = NoneCell

\* the k-th cell of the row-major walk, k counted from 0
CellAt(cfg, k) == <<k \div cfg.grid_columns, k % cfg.grid_columns>>

\* what a cell stands for in the output: the widget of a Primary cell, a hidden
\* placeholder otherwise
ElementFor(cell) ==
    IF cell.tag = "widget" THEN [kind |-> "widget", w |-> cell.w]
    ELSE [kind |-> "placeholder", w |-> 0]

\* C22: the rendering step emits one element per grid cell in row-major
\* order, the widget's root element for a Primary cell and an invisible
\* placeholder for every Empty cell and every Occupied cell, so the number of
\* emitted elements equals gridRows x gridColumns.
C22_OneElementPerCell ==
    gpc = "composed" =>
        /\ Len(yielded) = gconfig.grid_rows * gconfig.grid_columns
        /\ \A k \in 0 .. Len(yielded) - 1 :
               yielded[k + 1] = ElementFor(grid_cells[CellAt(gconfig, k)])

\* the positions of the row-major walk whose cell is not Occupied
Emitting ==
    {k \in 0 .. gconfig.grid_rows * gconfig.grid_columns - 1 :
        grid_cells[CellAt(gconfig, k)] # OccupiedCell}

\* C22, amended: the rendering step walks the cells in row-major order and
\* emits the widget's root element for a Primary cell, an invisible
\* placeholder for an Empty cell and nothing for an Occupied cell, so the
\* number of emitted elements equals gridRows x gridColumns less the number of
\* Occupied cells.
C22_NothingForOccupied ==
    gpc = "composed" =>
        /\ Len(yielded) = Cardinality(Emitting)
        /\ \A k \in Emitting :
               yielded[Cardinality({j \in Emitting : j <= k})] =
                   ElementFor(grid_cells[CellAt(gconfig, k)])

\* a grid with a Primary, an Occupied and an Empty cell: fewer elements than
\* cells, the last of them a placeholder
C22_Witness ==
    /\ gpc = "composed"
    /\ \E cell \in DOMAIN grid_cells : grid_cells[cell] = OccupiedCell
    /\ \E cell \in DOMAIN grid_cells : grid_cells[cell] = NoneCell
    /\ Len(yielded) = gconfig.grid_rows * gconfig.grid_columns - 1
    /\ yielded[1].kind = "widget"
    /\ yielded[Len(yielded)].kind = "placeholder"

----------------------------------------------------------------------------
(* Sparkline history and failing conditions *)

\* C23: a sparkline widget's history is mutated only by an update whose value
\* coerces to a number: an update with an absent value, an error value or a
\* non-numeric value leaves the history (and the data of the Sparkline)
\* exactly as it was, and a non-numeric value shows the inline "Error" marker.
C23_HistoryOnlyByNumbers ==
    [][(wlast'.op = "update" /\ wconfig.type = "sparkline"
            /\ wlast'.value.k # "num") =>
          /\ widget'.sparkline_data = widget.sparkline_data
          /\ widget'.spark = widget.spark
          /\ wlast'.value.k = "str" => widget'.value_text = Text("Error", 0)
      ]_vars

\* a sparkline holding two values was updated with a non-numeric string: the
\* two values are still its history, the label shows "Error"
C23_Witness ==
    /\ wconfig.type = "sparkline"
    /\ wlast.op = "update" /\ wlast.value = StrV
    /\ Len(received) = 2
    /\ widget.sparkline_data = received
    /\ widget.value_text = Text("Error", 0)

\* the rules of the widget whose condition evaluates, without raising, on the
\* value, in configured order
EvaluableRules(cfg, value) ==
    SelectSeq(cfg.conditional_formats,
              LAMBDA fmt : ~EvalCondition(fmt.condition, value).raised)

\* the rules of the widget whose condition raises on the value
RaisingRules(cfg, value) ==
    {i \in 1 .. Len(cfg.conditional_formats) :
        EvalCondition(cfg.conditional_formats[i].condition, value).raised}

\* C24: a conditional rule whose condition fails to evaluate is treated as
\* false: the rule changes no style field, the failure is not propagated, and
\* all later rules of the list are still evaluated and applied if true.  (The
\* style is the one the list without the failing rules gives, and every rule
\* of the list was evaluated.)
C24_FailingConditionIsFalse ==
    (wlast.op = "update" /\ ~wlast.failed /\ wlast.value # NoneV) =>
        /\ wlast.evaluated = Len(wconfig.conditional_formats)
        /\ StyleOf(widget) =
              ExpectedStyle([wconfig EXCEPT !.conditional_formats =
                                EvaluableRules(wconfig, wlast.value)],
                            wlast.value)

\* rules [value > 0 -> border red, value != 0 -> text red on $primary], value
\* a non-numeric string: the first condition raises TypeError and sets no
\* border, the second is true and was applied
C24_Witness ==
    /\ wlast.op = "update" /\ ~wlast.failed /\ wlast.value = StrV
    /\ wconfig.conditional_formats =
          <<Rule(CondGt0, "red", "None", "None", "None"),
            Rule(CondNe0, "None", "red", "$primary", "True")>>
    /\ RaisingRules(wconfig, wlast.value) = {1}
    /\ widget.border = NoBorder
    /\ widget.color = ResolveColor("red")
    /\ widget.background = ResolveColor("$primary")

----------------------------------------------------------------------------
(* SpecLoop: the callbacks of the app on the event loop *)

\* A callback the toolkit has to run: on_mount, the callback of interval timer
\* `timer` (_refresh_current_dashboard), or the action of a key binding
Callback(op, timer) == [op |-> op, timer |-> timer]

\* refresh_all_metrics, like every handler of the app, is a plain function
\* without an await: the event loop gets control back, and can run another
\* callback, only when the callback that called it has returned
RefreshSuspendsMutAwaits == TRUE
RefreshSuspends == FALSE

\* the callbacks that create an interval timer (_start_refresh_timer)
StartsTimer(op) == op \in {"on_mount", "next", "previous"}

\* the app is started: on_mount is to be run, no timer exists yet
LoopInit ==
    /\ posted = <<Callback("on_mount", 0)>>
    /\ in_progress = <<>>
    /\ live_timers = 0
    /\ IdleGrid
    /\ IdleWidget
    /\ IdleApp

\* the interval of a live timer has passed: its callback is due, also while a
\* callback is running
timer_fires ==
    /\ Len(posted) < MaxPosted
    /\ \E t \in 1 .. live_timers :
           posted' = Append(posted, Callback("tick", t))
    /\ UNCHANGED <<in_progress, live_timers, gvars, wvars, avars>>

\* a bound key is pressed: r (refresh), right (next), left (previous); the
\* switches of one run are bounded
key_pressed ==
    /\ Len(posted) < MaxPosted
    /\ \E op \in {"refresh", "next", "previous"} :
           /\ StartsTimer(op) =>
                  live_timers + Cardinality({k \in 1 .. Len(posted) :
                                                StartsTimer(posted[k].op)})
                      <= MaxSwitches
           /\ posted' = Append(posted, Callback(op, 0))
    /\ UNCHANGED <<in_progress, live_timers, gvars, wvars, avars>>

\* the loop runs the next callback, up to the call of query_batch in
\* refresh_all_metrics: on_mount and a switch have created their timer by
\* then (the switch is between two dashboards)
run_callback ==
    /\ posted # <<>>
    /\ in_progress = <<>> \/ RefreshSuspends
    /\ posted' = Tail(posted)
    /\ in_progress' = Append(in_progress,
                             [op |-> Head(posted).op, phase |-> "query_batch"])
    /\ live_timers' = IF StartsTimer(Head(posted).op)
                      THEN live_timers + 1 ELSE live_timers
    /\ UNCHANGED <<gvars, wvars, avars>>

\* query_batch returns the results: the loop over the widgets begins
query_batch_returns ==
    /\ \E k \in 1 .. Len(in_progress) :
           /\ in_progress[k].phase = "query_batch"
           /\ in_progress' = [in_progress EXCEPT ![k].phase = "update_value"]
    /\ UNCHANGED <<posted, live_timers, gvars, wvars, avars>>

\* the last update_value is done: refresh_all_metrics and the callback return
refresh_returns ==
    /\ \E k \in 1 .. Len(in_progress) :
           /\ in_progress[k].phase = "update_value"
           /\ in_progress' = [j \in 1 .. Len(in_progress) - 1 |->
                                 IF j < k THEN in_progress[j] ELSE in_progress[j + 1]]
    /\ UNCHANGED <<posted, live_timers, gvars, wvars, avars>>

LoopNext ==
    \/ timer_fires
    \/ key_pressed
    \/ run_callback
    \/ query_batch_returns
    \/ refresh_returns

SpecLoop == LoopInit /\ [][LoopNext]_vars

\* C26: at most one refreshAll is in progress at any time: no timer tick,
\* manual refresh or dashboard switch starts a refreshAll while the batch query
\* or the per-widget result processing of a previous one has not finished,
\* even when several timers are live.
C26_OneRefreshInProgress ==
    /\ Len(in_progress) <= 1
    /\ in_progress # <<>> => in_progress[1].phase \in {"query_batch", "update_value"}

\* the results of a refresh are being processed while the ticks of two live
\* timers are due: they wait
C26_Witness ==
    /\ Len(in_progress) = 1
    /\ in_progress[1].phase = "update_value"
    /\ live_timers >= 2
    /\ Len(posted) = 2
    /\ posted[1].op = "tick" /\ posted[2].op = "tick"
    /\ posted[1].timer # posted[2].timer

----------------------------------------------------------------------------
(* Startup and the refresh cycle *)

\* C28: at startup with at least one dashboard loaded, the current index is
\* 0, the first dashboard's view is the only one shown, one periodic timer is
\* started with dashboard 0's refresh interval, and one refreshAll on
\* dashboard 0 is fired immediately, before the first timer tick.
C28_Startup ==
    /\ [](~started =>
            /\ current_dashboard_index = 0
            /\ screen_views = {0}
            /\ timers = <<>>
            /\ last.op = "init")
    /\ [][(~started /\ started') =>
              /\ current_dashboard_index' = 0
              /\ screen_views' = {0}
              /\ Len(timers') = 1
              /\ timers'[1].interval = configs[1].refresh_interval
              /\ last'.op = "on_mount"
              /\ last'.refreshed = <<0>>
              /\ {last'.passed[k].w : k \in 1 .. Len(last'.passed)} = Shown(configs[1])
          ]_vars
    /\ [][last'.op = "tick" => (started /\ last.op # "init")]_vars

\* three dashboards were loaded and on_mount ran: one timer of 5 seconds, the
\* widget dashboard A shows was updated with the result of its query
C28_Witness ==
    /\ N = 3
    /\ started
    /\ last.op = "on_mount"
    /\ current_dashboard_index = 0
    /\ screen_views = {0}
    /\ timers = <<NewTimer(0)>>
    /\ timers[1].interval = 5
    /\ last.refreshed = <<0>>
    /\ dom[0][2].value_widget = Text("float", 15)

\* a step that is a timer tick at which the backend answers every query of
\* the batch
TickAnswered ==
    /\ last'.op = "tick"
    /\ \A k \in 1 .. Len(last'.outcomes) : ~last'.outcomes[k].raised

\* Spec with the scheduling of the toolkit: the app is mounted, a mount is
\* completed, and the interval timers keep firing; of the ticks, those the
\* backend answers keep coming (the claim's "once the backend answers"): weak
\* fairness of the answered ticks, written out with TickGuard, which is when
\* timer_tick (and an answered one: the backend's outcomes do not depend on
\* the state) is enabled
SpecLive ==
    /\ Init /\ [][Next]_vars
    /\ WF_vars(on_mount)
    /\ WF_vars(mount_complete)
    /\ ([]<>(~TickGuard) \/ []<><<TickAnswered>>_vars)

\* widget w of dashboard i exists and shows the "Error: ..." message of its
\* query
ShowsError(i, w) ==
    /\ i \in DOMAIN dom
    /\ w \in DOMAIN dom[i]
    /\ dom[i][w].value_widget = Text("errmsg", 0)

\* widget w of dashboard i shows the result of an answered query: the
\* formatted value, or "No data"
ShowsAnswer(i, w) ==
    /\ i \in DOMAIN dom
    /\ w \in DOMAIN dom[i]
    /\ dom[i][w].value_widget.t \in {"float", "nodata"}

\* C27: a query error never stops the refresh cycle: the timers stay live,
\* every tick issues the queries of the current dashboard again, and under
\* fair ticks a widget that displays the error of its query eventually
\* displays the new result, once the backend answers (or its view has been
\* taken off the screen by a switch).
C27_ErrorDoesNotStopCycle ==
    /\ [][SubSeq(timers', 1, Len(timers)) = timers]_vars
    /\ [][last'.op = "tick" =>
              DOMAIN last'.results =
                  {ConfigAt(current_dashboard_index).widgets[k].query :
                      k \in 1 .. Len(ConfigAt(current_dashboard_index).widgets)}]_vars
    /\ \A i \in 0 .. MaxDashboards - 1 : \A w \in 1 .. MaxSpecs :
           ShowsError(i, w) ~>
               (ShowsAnswer(i, w) \/ i \notin screen_views)

\* a tick on dashboard B whose queries failed, with two timers live: both
\* widgets display the error
C27_Witness ==
    /\ last.op = "tick"
    /\ current_dashboard_index = 1
    /\ Len(timers) = 2
    /\ last.outcomes[2].raised
    /\ ShowsError(1, 1)
    /\ ShowsError(1, 2)

====
